---------------------------- MODULE Spec2Model ----------------------------
(***************************************************************************)
(* A model of starred_repos_js.js: the class GitHubStarredRepos            *)
(* (fetchStarredRepos, formatRepoData, generateMarkdown, generateReport)    *)
(* and the entry point main.                                                *)
(*                                                                          *)
(* JavaScript values are tagged records.  A JavaScript string is a          *)
(* sequence of one-character strings (its UTF-16 code units); the text the  *)
(* program builds (the markdown, the JSON export) is a sequence of tokens:  *)
(* every literal piece of a template is one token, every character of a     *)
(* data string is one token, and "\n" is the line terminator.  Arrays live  *)
(* in a heap and are passed by reference, as in the language.               *)
(***************************************************************************)
EXTENDS Integers, Sequences, FiniteSets, TLC

VARIABLES
    pc,         \* where main / generateReport / fetchStarredRepos stands
    requests,   \* the URLs fetch was called with so far, in call order
    outcome,    \* how the request ended: none, networkError, httpError, jsonError, ok
    body,       \* the value response.json() resolved with (Undefined before)
    repos,      \* generateReport's local `repos`: what fetchStarredRepos returned
    heap,       \* the arrays allocated so far; an array value holds an index into it
    report,     \* what generateReport resolved with (Undefined before)
    calls,      \* the methods called so far, in call order
    files       \* the files written by main, in write order

vars == <<pc, requests, outcome, body, repos, heap, report, calls, files>>

-----------------------------------------------------------------------------
(* Bounds of the model *)

\* The catalogue holds TopN + ExtraRepos repositories.
ExtraRepos == 2
\* A fetched array holds at most MaxSmall of them, or at least TopN of them.
MaxSmall == 3

-----------------------------------------------------------------------------
(* Program constants *)

\* .slice(0, 10)
TopN == 10
\* repo.description.length > 80, substring(0, 80)
DescLimit == 80
\* JSON.stringify(..., null, 2)
JsonIndent == 2

NL == "\n"

-----------------------------------------------------------------------------
(* JavaScript values *)

Undefined == [t |-> "undefined"]
Null == [t |-> "null"]
Bool(b) == [t |-> "boolean", b |-> b]
Num(n) == [t |-> "number", n |-> n]
Str(s) == [t |-> "string", s |-> s]
\* An object: its own property names in insertion order, and their values.
Obj(keys, val) == [t |-> "object", keys |-> keys, val |-> val]
\* An array: a reference into the heap.
Arr(ref) == [t |-> "array", ref |-> ref]

Range(s) == {s[i] : i \in DOMAIN s}

\* o.k : a missing property reads as undefined.  (Reading a property of
\* undefined or null throws; the callers test Nullish first.)
Get(o, k) ==
    IF o.t = "object" /\ k \in Range(o.keys) THEN o.val[k] ELSE Undefined

Nullish(v) == v.t \in {"undefined", "null"}

\* ToBoolean
Truthy(v) ==
    CASE v.t \in {"undefined", "null"} -> FALSE
      [] v.t = "boolean" -> v.b
      [] v.t = "number" -> v.n # 0
      [] v.t = "string" -> Len(v.s) > 0
      [] OTHER -> TRUE

DigitChars == <<"0", "1", "2", "3", "4", "5", "6", "7", "8", "9">>

\* Number.prototype.toString for a non-negative integer.
RECURSIVE Digits(_)
Digits(n) ==
    IF n < 10 THEN <<DigitChars[n + 1]>>
    ELSE Digits(n \div 10) \o <<DigitChars[(n % 10) + 1]>>

\* The separator Number.prototype.toLocaleString puts between groups of
\* three digits in the default locale of the host.
Locales == {"en-US", "de-DE"}
GroupSeparator(locale) == IF locale = "en-US" THEN "," ELSE "."

Pad3(n) ==
    <<DigitChars[(n \div 100) + 1], DigitChars[((n \div 10) % 10) + 1],
      DigitChars[(n % 10) + 1]>>

RECURSIVE GroupDigits(_, _)
GroupDigits(n, sep) ==
    IF n < 1000 THEN Digits(n)
    ELSE GroupDigits(n \div 1000, sep) \o <<sep>> \o Pad3(n % 1000)

\* `${v}` : ToString of a value inside a template literal.
TemplateStr(v) ==
    CASE v.t = "undefined" -> <<"undefined">>
      [] v.t = "null" -> <<"null">>
      [] v.t = "boolean" -> IF v.b THEN <<"true">> ELSE <<"false">>
      [] v.t = "number" -> Digits(v.n)
      [] v.t = "string" -> v.s
      [] OTHER -> <<"[object Object]">>

\* v.toLocaleString() : throws on undefined and null; a number is grouped,
\* any other value is converted as by toString.
ToLocaleStringThrows(v) == Nullish(v)
toLocaleString(v, locale) ==
    IF v.t = "number" THEN GroupDigits(v.n, GroupSeparator(locale))
    ELSE TemplateStr(v)

-----------------------------------------------------------------------------
(* The inputs: what the endpoint can answer *)

\* new GitHubStarredRepos('that-one-tom')
Username == <<"t", "h", "a", "t", "-", "o", "n", "e", "-", "t", "o", "m">>
\* `https://api.github.com/users/${username}/starred`
ApiUrl(username) ==
    <<"https://api.github.com/users/">> \o username \o <<"/starred">>

NumCatalogue == TopN + ExtraRepos

\* The star counts of the catalogue: ties, rises and falls, and counts that
\* toLocaleString groups.
StarsOf(i) ==
    CASE (i * i) % 5 = 0 -> 0
      [] (i * i) % 5 = 1 -> 42
      [] OTHER -> 1500

CharAt(k) == DigitChars[(k % 10) + 1]

\* The descriptions of the catalogue: null, empty, short, exactly DescLimit
\* characters, DescLimit + 1 and DescLimit + 3 characters.
DescriptionOf(i) ==
    CASE i % 6 = 1 -> Str(<<"d">> \o Digits(i))
      [] i % 6 = 2 -> Str([k \in 1..DescLimit |-> CharAt(k + i)])
      [] i % 6 = 3 -> Str([k \in 1..(DescLimit + 1) |-> CharAt(k + i)])
      [] i % 6 = 4 -> Null
      [] i % 6 = 5 -> Str(<<>>)
      [] OTHER -> Str([k \in 1..(DescLimit + 3) |-> CharAt(k + i)])

OwnerOf(i) ==
    LET login == <<"o">> \o Digits(i % 3)
    IN  Obj(<<"login", "id", "html_url">>,
            [k \in {"login", "id", "html_url"} |->
                CASE k = "login" -> Str(login)
                  [] k = "id" -> Num(i % 3)
                  [] OTHER -> Str(<<"u", "/">> \o login)])

RepoKeys ==
    <<"id", "name", "full_name", "owner", "html_url", "description",
      "created_at", "updated_at", "stargazers_count", "watchers_count",
      "language", "forks_count">>

\* The i-th repository of the catalogue, as the API returns it: the fields
\* the program reads and some it does not.
Repo(i) ==
    LET name == <<"r">> \o Digits(i)
        full == <<"o">> \o Digits(i % 3) \o <<"/">> \o name
    IN  Obj(RepoKeys,
            [k \in Range(RepoKeys) |->
                CASE k = "id" -> Num(i)
                  [] k = "name" -> Str(name)
                  [] k = "full_name" -> Str(full)
                  [] k = "owner" -> OwnerOf(i)
                  [] k = "html_url" -> Str(<<"u", "/">> \o full)
                  [] k = "description" -> DescriptionOf(i)
                  [] k = "created_at" -> Str(<<"c">> \o Digits(i))
                  [] k = "updated_at" -> Str(<<"m">> \o Digits(i))
                  [] k = "stargazers_count" -> Num(StarsOf(i))
                  [] k = "watchers_count" -> Num(StarsOf(i))
                  [] k = "language" ->
                        IF i % 4 = 0 THEN Null ELSE Str(<<"J", "S">>)
                  [] OTHER -> Num(i * 250)])

\* The elements of a set of numbers in increasing order.
RECURSIVE SortedSeq(_)
SortedSeq(S) ==
    IF S = {} THEN <<>>
    ELSE LET m == CHOOSE x \in S : \A y \in S : x <= y
         IN  <<m>> \o SortedSeq(S \ {m})

\* The starred list of a user who starred the repositories S of the catalogue.
Starred(S) == LET idx == SortedSeq(S) IN [k \in 1..Len(idx) |-> Repo(idx[k])]

Selections ==
    {S \in SUBSET (1..NumCatalogue) :
        Cardinality(S) <= MaxSmall \/ Cardinality(S) >= TopN}

\* A decoded JSON array, before the program holds it: its items by value.
List(items) == [t |-> "list", items |-> items]

\* The bodies that are arrays of well-formed repository objects.
WellFormedBodies == {List(Starred(S)) : S \in Selections}

\* obj without its property k
Without(obj, k) ==
    Obj(SelectSeq(obj.keys, LAMBDA x : x # k),
        [x \in Range(obj.keys) \ {k} |-> obj.val[x]])

Defects == {"noOwner", "noStars", "noForks", "nullRecord"}

Damaged(repo, defect) ==
    CASE defect = "noOwner" -> Without(repo, "owner")
      [] defect = "noStars" -> Without(repo, "stargazers_count")
      [] defect = "noForks" -> Without(repo, "forks_count")
      [] OTHER -> Null

\* The bodies that decode but are arrays with a damaged record.
MalformedArrays ==
    {List([Starred(c[1]) EXCEPT ![c[2]] = Damaged(@, d)]) :
        c \in {<<{1}, 1>>, <<{1, 2}, 1>>, <<{1, 2}, 2>>}, d \in Defects}

\* The bodies that decode but are no array: an error object, and primitives.
ErrorObject ==
    Obj(<<"message">>, [k \in {"message"} |-> Str(<<"N", "o">>)])
NonArrayBodies == {ErrorObject, Null, Num(0), Num(7), Bool(TRUE), Str(<<>>)}

Bodies == WellFormedBodies \cup MalformedArrays \cup NonArrayBodies

-----------------------------------------------------------------------------
(* class GitHubStarredRepos *)

FormattedKeys ==
    <<"name", "full_name", "description", "html_url", "stargazers_count",
      "forks_count", "language", "created_at", "updated_at", "owner">>
FormattedOwnerKeys == <<"login", "html_url">>

\* formatRepo as it would be were every property of repo copied (a spread of
\* repo) and only the owner rebuilt.
formatRepoSpread(repo) ==
    Obj(repo.keys,
        [k \in Range(repo.keys) |->
            IF k = "owner"
            THEN Obj(FormattedOwnerKeys,
                     [o \in Range(FormattedOwnerKeys) |->
                         Get(Get(repo, "owner"), o)])
            ELSE Get(repo, k)])

\* The arrow function of formatRepoData: the object literal built from repo.
\* Used where repo and repo.owner are not undefined or null.
formatRepo(repo) ==
    Obj(FormattedKeys,
        [k \in Range(FormattedKeys) |->
            IF k = "owner"
            THEN Obj(FormattedOwnerKeys,
                     [o \in Range(FormattedOwnerKeys) |->
                         Get(Get(repo, "owner"), o)])
            ELSE Get(repo, k)])

\* Whether the arrow function throws a TypeError on repo: repo.name of
\* undefined or null, or repo.owner.login of an undefined or null owner.
formatRepoThrows(repo) == Nullish(repo) \/ Nullish(Get(repo, "owner"))

\* formatRepoData as it would be were the records rewritten in the array
\* passed in (a forEach that assigns, not a map): no new array.
formatRepoDataInPlace(h, r) ==
    IF r.t # "array" THEN [threw |-> TRUE, heap |-> h, value |-> Undefined]
    ELSE IF \E i \in DOMAIN h[r.ref] : formatRepoThrows(h[r.ref][i])
    THEN [threw |-> TRUE, heap |-> h, value |-> Undefined]
    ELSE [threw |-> FALSE,
          heap |-> [h EXCEPT ![r.ref] =
                       [i \in DOMAIN h[r.ref] |-> formatRepo(h[r.ref][i])]],
          value |-> r]

\* formatRepoData(repos) on heap h: repos.map(...) allocates a new array and
\* leaves the one it reads alone.  Throws when repos has no map method (it is
\* no array) or when the arrow function throws.
formatRepoData(h, r) ==
    IF r.t # "array" THEN [threw |-> TRUE, heap |-> h, value |-> Undefined]
    ELSE IF \E i \in DOMAIN h[r.ref] : formatRepoThrows(h[r.ref][i])
    THEN [threw |-> TRUE, heap |-> h, value |-> Undefined]
    ELSE [threw |-> FALSE,
          heap |-> Append(h, [i \in DOMAIN h[r.ref] |-> formatRepo(h[r.ref][i])]),
          value |-> Arr(Len(h) + 1)]

\* ToNumber, for the operands of the comparator's subtraction.
IsNaN(v) == v.t \notin {"number", "null", "boolean"}
ToNumber(v) ==
    CASE v.t = "number" -> v.n
      [] v.t = "boolean" -> IF v.b THEN 1 ELSE 0
      [] OTHER -> 0

\* y - x ; a NaN result counts as 0 for the sort.
subtract(y, x) == IF IsNaN(x) \/ IsNaN(y) THEN 0 ELSE ToNumber(y) - ToNumber(x)

\* (a, b) => b.stargazers_count - a.stargazers_count
compareStars(a, b) ==
    subtract(Get(b, "stargazers_count"), Get(a, "stargazers_count"))

Min(S) == CHOOSE p \in S : \A q \in S : p <= q

InsertAt(acc, x, at) ==
    SubSeq(acc, 1, at - 1) \o <<x>> \o SubSeq(acc, at, Len(acc))

\* x put into the sorted sequence acc behind every element that does not
\* have to come after it.
InsertSorted(acc, x) ==
    InsertAt(acc, x,
             Min({p \in DOMAIN acc : compareStars(acc[p], x) > 0}
                 \cup {Len(acc) + 1}))

RECURSIVE SortFrom(_, _, _)
SortFrom(items, i, acc) ==
    IF i > Len(items) THEN acc
    ELSE SortFrom(items, i + 1, InsertSorted(acc, items[i]))

\* x put into acc in front of the elements it ties with.
InsertBeforeTies(acc, x) ==
    InsertAt(acc, x,
             Min({p \in DOMAIN acc : compareStars(acc[p], x) >= 0}
                 \cup {Len(acc) + 1}))

RECURSIVE SortFromBeforeTies(_, _, _)
SortFromBeforeTies(items, i, acc) ==
    IF i > Len(items) THEN acc
    ELSE SortFromBeforeTies(items, i + 1, InsertBeforeTies(acc, items[i]))

\* sortByStars as a sort that is not stable would have it: tied records
\* come out in reverse.
sortByStarsUnstable(items) == SortFromBeforeTies(items, 1, <<>>)

\* Array.prototype.sort with compareStars: a stable sort (ECMAScript 2019,
\* and every host that has a global fetch).
sortByStars(items) == SortFrom(items, 1, <<>>)

\* .slice(0, 10)
sliceTop(items) == SubSeq(items, 1, Min({Len(items), TopN}))

\* value || fallback, inside a template literal
orDefault(v, fallback) == IF Truthy(v) THEN TemplateStr(v) ELSE <<fallback>>

\* The text one iteration of topRepos.forEach appends.
topEntry(repo, index, locale) ==
    <<"### ">> \o Digits(index + 1) \o <<". [">>
        \o TemplateStr(Get(repo, "name")) \o <<"](">>
        \o TemplateStr(Get(repo, "html_url")) \o <<")", NL>>
    \o <<"**Owner**: [">> \o TemplateStr(Get(Get(repo, "owner"), "login"))
        \o <<"](">> \o TemplateStr(Get(Get(repo, "owner"), "html_url"))
        \o <<")", NL>>
    \o <<"**Description**: ">>
        \o orDefault(Get(repo, "description"), "No description") \o <<NL>>
    \o <<"**Language**: ">> \o orDefault(Get(repo, "language"), "N/A")
        \o <<" | ">>
    \o <<"**Stars**: <star> ">>
        \o toLocaleString(Get(repo, "stargazers_count"), locale) \o <<" | ">>
    \o <<"**Forks**: <fork> ">>
        \o toLocaleString(Get(repo, "forks_count"), locale) \o <<NL, NL>>

\* truncate with >= for > : a description of exactly 80 characters is cut.
truncateAtLimit(s) ==
    IF Len(s) >= DescLimit THEN SubSeq(s, 1, DescLimit) \o <<"...">> ELSE s

\* description.length > 80 ? description.substring(0, 80) + '...' : description
truncate(s) ==
    IF Len(s) > DescLimit THEN SubSeq(s, 1, DescLimit) \o <<"...">> ELSE s

\* The description cell of a table row.
tableDescription(d) ==
    IF Truthy(d) THEN truncate(TemplateStr(d)) ELSE <<"No description">>

\* The text one iteration of formattedRepos.forEach appends.
tableRow(repo, locale) ==
    <<"| ">>
    \o <<"[">> \o TemplateStr(Get(repo, "name")) \o <<"](">>
        \o TemplateStr(Get(repo, "html_url")) \o <<")">>
    \o <<" | ">> \o tableDescription(Get(repo, "description"))
    \o <<" | ">> \o orDefault(Get(repo, "language"), "N/A")
    \o <<" | ">> \o <<"<star> ">>
        \o toLocaleString(Get(repo, "stargazers_count"), locale)
    \o <<" | ">> \o <<"<fork> ">>
        \o toLocaleString(Get(repo, "forks_count"), locale)
    \o <<" |", NL>>

\* Whether rendering repo throws: toLocaleString of an undefined or null count.
renderThrows(repo) ==
    \/ ToLocaleStringThrows(Get(repo, "stargazers_count"))
    \/ ToLocaleStringThrows(Get(repo, "forks_count"))

\* the texts f[1] .. f[n] in a row
RECURSIVE Concat(_, _)
Concat(f, n) == IF n = 0 THEN <<>> ELSE Concat(f, n - 1) \o f[n]

TableHeader == "| Repository | Description | Language | Stars | Forks |"
TableRule == "|------------|-------------|----------|-------|-------|"

\* The text generateMarkdown builds from the n fetched records, the sliced
\* array topRepos and the sorted array formattedRepos.
markdownText(n, topRepos, formattedRepos, username, locale) ==
    <<"# <star> Starred Repositories by ">> \o username \o <<NL, NL>>
    \o <<"> Total repositories: ">> \o TemplateStr(n) \o <<NL, NL>>
    \o <<"## <fire> Top 10 Most Starred", NL, NL>>
    \o Concat([i \in DOMAIN topRepos |-> topEntry(topRepos[i], i - 1, locale)],
              Len(topRepos))
    \o <<"## <chart> All Repositories", NL, NL>>
    \o <<TableHeader, NL>>
    \o <<TableRule, NL>>
    \o Concat([i \in DOMAIN formattedRepos |->
                  tableRow(formattedRepos[i], locale)],
              Len(formattedRepos))

\* value.length
lengthOf(h, v) == IF v.t = "array" THEN Num(Len(h[v.ref])) ELSE Undefined

\* renderSorted as it would be were the table built from topRepos.
renderSortedTopOnly(h, ref, n, username, locale) ==
    IF \E i \in DOMAIN h[ref] : renderThrows(h[ref][i])
    THEN [threw |-> TRUE, heap |-> h, markdown |-> <<>>]
    ELSE [threw |-> FALSE, heap |-> h,
          markdown |-> markdownText(n, h[Len(h)], h[Len(h)], username, locale)]

\* generateMarkdown from the sort on: h holds formattedRepos at ref, sorted,
\* and topRepos as its last array.  Every record of formattedRepos is
\* rendered in the table, so one that cannot be rendered makes the call throw.
renderSorted(h, ref, n, username, locale) ==
    IF \E i \in DOMAIN h[ref] : renderThrows(h[ref][i])
    THEN [threw |-> TRUE, heap |-> h, markdown |-> <<>>]
    ELSE [threw |-> FALSE, heap |-> h,
          markdown |-> markdownText(n, h[Len(h)], h[ref], username, locale)]

\* formattedRepos.sort(...) sorts the array at ref in place.
sortInPlace(h, ref) == [h EXCEPT ![ref] = sortByStars(@)]

\* .slice(0, 10) allocates the array topRepos.
sliceAlloc(h, ref) == Append(h, sliceTop(h[ref]))

\* generateMarkdown after formatRepoData gave f: repos.length is read, then
\* formattedRepos is sorted and sliced.
markdownFrom(f, r, username, locale) ==
    IF f.threw THEN [threw |-> TRUE, heap |-> f.heap, markdown |-> <<>>]
    ELSE renderSorted(sliceAlloc(sortInPlace(f.heap, f.value.ref), f.value.ref),
                      f.value.ref, lengthOf(f.heap, r), username, locale)

\* generateMarkdown(repos) on heap h.
generateMarkdown(h, r, username, locale) ==
    markdownFrom(formatRepoData(h, r), r, username, locale)

Indent(depth) == [i \in 1..(depth * JsonIndent) |-> " "]

\* The texts f[1] .. f[n] with ",\n" between them
RECURSIVE Joined(_, _)
Joined(f, n) ==
    IF n = 0 THEN <<>>
    ELSE IF n = 1 THEN f[1]
    ELSE Joined(f, n - 1) \o <<",", NL>> \o f[n]

\* The own properties JSON.stringify writes: those whose value is not undefined.
writtenKeys(v) == SelectSeq(v.keys, LAMBDA k : v.val[k].t # "undefined")

\* JSON.stringify(v, null, 2) at nesting depth `depth`: a property whose
\* value is undefined is left out, an undefined array element is null.
\* (The strings of the model hold no character that JSON escapes.)
RECURSIVE stringify(_, _, _)
stringify(h, v, depth) ==
    CASE v.t \in {"null", "undefined"} -> <<"null">>
      [] v.t = "boolean" -> IF v.b THEN <<"true">> ELSE <<"false">>
      [] v.t = "number" -> Digits(v.n)
      [] v.t = "string" -> <<"\"">> \o v.s \o <<"\"">>
      [] v.t = "array" ->
            IF Len(h[v.ref]) = 0 THEN <<"[]">>
            ELSE <<"[", NL>>
                 \o Joined([i \in DOMAIN h[v.ref] |->
                               Indent(depth + 1)
                               \o stringify(h, h[v.ref][i], depth + 1)],
                           Len(h[v.ref]))
                 \o <<NL>> \o Indent(depth) \o <<"]">>
      [] OTHER ->
            IF Len(writtenKeys(v)) = 0 THEN <<"{}">>
            ELSE <<"{", NL>>
                 \o Joined([i \in DOMAIN writtenKeys(v) |->
                               Indent(depth + 1)
                               \o <<"\"", writtenKeys(v)[i], "\"", ": ">>
                               \o stringify(h, v.val[writtenKeys(v)[i]],
                                            depth + 1)],
                           Len(writtenKeys(v)))
                 \o <<NL>> \o Indent(depth) \o <<"}">>

\* The object generateReport returns.
Report(markdown, json, count) ==
    [t |-> "report", markdown |-> markdown, json |-> json, count |-> count]

\* reposMissing as `repos === undefined` would have it.
reposMissingUndefinedOnly(v) == v.t = "undefined"

\* if (!repos) in generateReport
reposMissing(v) == ~Truthy(v)

\* if (report) in main
reportPresent(v) == Truthy(v)

\* generateReport after generateMarkdown gave md and the second
\* formatRepoData gave f.
reportFrom(md, f, r) ==
    IF f.threw
    THEN [threw |-> TRUE, heap |-> f.heap, value |-> Undefined,
          calls |-> <<"generateMarkdown", "formatRepoData", "formatRepoData">>]
    ELSE [threw |-> FALSE, heap |-> f.heap,
          value |-> Report(md.markdown, stringify(f.heap, f.value, 0),
                           lengthOf(f.heap, r)),
          calls |-> <<"generateMarkdown", "formatRepoData", "formatRepoData">>]

\* generateReport after generateMarkdown gave md.
afterMarkdown(md, r) ==
    IF md.threw
    THEN [threw |-> TRUE, heap |-> md.heap, value |-> Undefined,
          calls |-> <<"generateMarkdown", "formatRepoData">>]
    ELSE reportFrom(md, formatRepoData(md.heap, r), r)

\* generateReport after `await this.fetchStarredRepos()` gave r, on heap h:
\* how it ends, the heap it leaves, the value it resolves with and the
\* methods it called.
generateReportBody(h, r, username, locale) ==
    IF reposMissing(r)
    THEN [threw |-> FALSE, heap |-> h, value |-> Null, calls |-> <<>>]
    ELSE afterMarkdown(generateMarkdown(h, r, username, locale), r)

-----------------------------------------------------------------------------
(* The run of main *)

Init ==
    /\ pc = "start"
    /\ requests = <<>>
    /\ outcome = "none"
    /\ body = Undefined
    /\ repos = Undefined
    /\ heap = <<>>
    /\ report = Undefined
    /\ calls = <<>>
    /\ files = <<>>

\* afterFetchFailure as a retry would have it: the request is issued again.
afterFetchFailureRetry == "start"

\* Where fetchStarredRepos goes when its try block throws: the catch clause
\* logs and returns null, and generateReport resumes.
afterFetchFailure == "fetched"

\* main constructs the object and calls generateReport, which calls
\* fetchStarredRepos, which calls fetch(this.apiUrl) and awaits it.
MainStart ==
    /\ pc = "start"
    /\ pc' = "awaitFetch"
    /\ requests' = Append(requests, ApiUrl(Username))
    /\ calls' = calls \o <<"generateReport", "fetchStarredRepos", "fetch">>
    /\ UNCHANGED <<outcome, body, repos, heap, report, files>>

\* fetch rejects (a network error): caught, null returned.
FetchRejects ==
    /\ pc = "awaitFetch"
    /\ pc' = afterFetchFailure
    /\ outcome' = "networkError"
    /\ repos' = Null
    /\ UNCHANGED <<requests, body, heap, report, calls, files>>

\* fetch resolves with a response that is not ok: the Error thrown in the
\* try block is caught, null returned.
ResponseNotOk ==
    /\ pc = "awaitFetch"
    /\ pc' = afterFetchFailure
    /\ outcome' = "httpError"
    /\ repos' = Null
    /\ UNCHANGED <<requests, body, heap, report, calls, files>>

\* fetch resolves with an ok response: response.json() is called and awaited.
ResponseOk ==
    /\ pc = "awaitFetch"
    /\ pc' = "awaitJson"
    /\ calls' = Append(calls, "json")
    /\ UNCHANGED <<requests, outcome, body, repos, heap, report, files>>

\* response.json() rejects (the body is no JSON): caught, null returned.
JsonRejects ==
    /\ pc = "awaitJson"
    /\ pc' = afterFetchFailure
    /\ outcome' = "jsonError"
    /\ repos' = Null
    /\ UNCHANGED <<requests, body, heap, report, calls, files>>

\* response.json() resolves with the decoded body b, which
\* fetchStarredRepos returns; a decoded array is a new array of the heap.
JsonResolves ==
    /\ pc = "awaitJson"
    /\ \E b \in Bodies :
        /\ body' = b
        /\ IF b.t = "list"
           THEN /\ heap' = Append(heap, b.items)
                /\ repos' = Arr(Len(heap) + 1)
           ELSE /\ heap' = heap
                /\ repos' = b
    /\ pc' = "fetched"
    /\ outcome' = "ok"
    /\ UNCHANGED <<requests, report, calls, files>>

\* How generateReport ends, given the result g of its body.
GenerateReportEnds(g) ==
    /\ heap' = g.heap
    /\ calls' = calls \o g.calls
    /\ pc' = IF g.threw THEN "rejected" ELSE "reported"
    /\ report' = IF g.threw THEN report ELSE g.value

\* generateReport resumes with repos and runs to its end: it returns null,
\* returns the report, or throws (its promise rejects, and so does main's,
\* which does not catch).
GenerateReport ==
    /\ pc = "fetched"
    /\ \E locale \in Locales :
        GenerateReportEnds(generateReportBody(heap, repos, Username, locale))
    /\ UNCHANGED <<requests, outcome, body, repos, files>>

\* main resumes with a report that is null: nothing more happens.
MainNoReport ==
    /\ pc = "reported"
    /\ ~reportPresent(report)
    /\ pc' = "done"
    /\ UNCHANGED <<requests, outcome, body, repos, heap, report, calls, files>>

\* main resumes with a report where `require` is undefined (a browser, an
\* ES module): the report is logged and nothing is written.
MainNoRequire ==
    /\ pc = "reported"
    /\ reportPresent(report)
    /\ pc' = "done"
    /\ UNCHANGED <<requests, outcome, body, repos, heap, report, calls, files>>

\* fs.writeFileSync('README.md', report.markdown)
MainWriteReadme ==
    /\ pc = "reported"
    /\ reportPresent(report)
    /\ files' = Append(files, [name |-> "README.md", content |-> report.markdown])
    /\ pc' = "wroteReadme"
    /\ UNCHANGED <<requests, outcome, body, repos, heap, report, calls>>

\* MainWriteJson as it would be were it the first write.
MainWriteJsonFirst ==
    /\ pc = "reported"
    /\ reportPresent(report)
    /\ files' = Append(files, [name |-> "starred-repos.json", content |-> report.json])
    /\ pc' = "done"
    /\ UNCHANGED <<requests, outcome, body, repos, heap, report, calls>>

\* fs.writeFileSync('starred-repos.json', report.json)
MainWriteJson ==
    /\ pc = "wroteReadme"
    /\ files' = Append(files, [name |-> "starred-repos.json", content |-> report.json])
    /\ pc' = "done"
    /\ UNCHANGED <<requests, outcome, body, repos, heap, report, calls>>

\* fs.writeFileSync throws (the file cannot be written): main's promise
\* rejects, and the statements after the call do not run.
MainWriteFails ==
    /\ \/ pc = "wroteReadme"
       \/ pc = "reported" /\ reportPresent(report)
    /\ pc' = "writeFailed"
    /\ UNCHANGED <<requests, outcome, body, repos, heap, report, calls, files>>

Next ==
    \/ MainStart
    \/ FetchRejects
    \/ ResponseNotOk
    \/ ResponseOk
    \/ JsonRejects
    \/ JsonResolves
    \/ GenerateReport
    \/ MainNoReport
    \/ MainNoRequire
    \/ MainWriteReadme
    \/ MainWriteJson
    \/ MainWriteFails

Spec == Init /\ [][Next]_vars

-----------------------------------------------------------------------------
(* Reading the texts the program wrote *)

\* The places of the token tok in text, in increasing order.
Positions(text, tok) ==
    SelectSeq([i \in DOMAIN text |-> i], LAMBDA i : text[i] = tok)

\* The pieces of text between the separators at the places `at`.
SplitAt(text, at) ==
    [k \in 1..(Len(at) + 1) |->
        SubSeq(text,
               IF k = 1 THEN 1 ELSE at[k - 1] + 1,
               IF k = Len(at) + 1 THEN Len(text) ELSE at[k] - 1)]

Split(text, sep) == SplitAt(text, Positions(text, sep))

StartsWith(line, tok) == Len(line) > 0 /\ line[1] = tok

\* The tokens of line between the first `open` and the first `close`.
Between(line, open, close) ==
    SubSeq(line, Positions(line, open)[1] + 1, Positions(line, close)[1] - 1)

\* The lines of a markdown text that start with the token tok.
LinesWith(md, tok) ==
    SelectSeq(Split(md, NL), LAMBDA l : StartsWith(l, tok))

\* The data rows of the 'All Repositories' table.
TableRows(md) == LinesWith(md, "| ")
\* The heading lines of the Top 10 entries.
TopHeadings(md) == LinesWith(md, "### ")
\* The description lines of the Top 10 entries.
TopDescriptions(md) == LinesWith(md, "**Description**: ")

RowName(row) == Between(row, "[", "](")
RowDescription(row) == Split(row, " | ")[2]
HeadingName(line) == Between(line, ". [", "](")
HeadingNumber(line) == Between(line, "### ", ". [")

\* The lines of the JSON export that open an element of the top-level array.
JsonRecordLines(json) ==
    SelectSeq(Split(json, NL), LAMBDA l : l = Indent(1) \o <<"{">>)

\* The string value of a property line: what stands between its third and
\* fourth quote.
QuotedValue(line) ==
    SubSeq(line, Positions(line, "\"")[3] + 1, Positions(line, "\"")[4] - 1)

QuotedValues(lines) == [k \in DOMAIN lines |-> QuotedValue(lines[k])]

\* The values of the "name" properties of the JSON export, in order.
JsonNames(json) ==
    QuotedValues(SelectSeq(Split(json, NL), LAMBDA l : "name" \in Range(l)))

\* The decoded body is an array of well-formed repository objects.
WellFormed(b) ==
    /\ b.t = "list"
    /\ \A i \in DOMAIN b.items :
        /\ b.items[i].t = "object"
        /\ Get(b.items[i], "owner").t = "object"
        /\ Get(b.items[i], "stargazers_count").t = "number"
        /\ Get(b.items[i], "forks_count").t = "number"

\* The decoded body is malformed: no array, or an array with a record that
\* has no owner or no numeric star or fork count.
Malformed(b) == outcome = "ok" /\ ~WellFormed(b)

NameOf(repo) == Get(repo, "name").s
StarCount(repo) == Get(repo, "stargazers_count").n
Names(items) == [i \in DOMAIN items |-> NameOf(items[i])]

\* The place in items of the record called name.
IndexOf(items, name) == CHOOSE i \in DOMAIN items : NameOf(items[i]) = name

\* generateReport has returned a report for a well-formed array.
Reported == report.t = "report" /\ WellFormed(body)

\* generateReport has settled: returned or thrown.
Settled == pc \in {"reported", "wroteReadme", "done", "writeFailed", "rejected"}

FetchFailed == outcome \in {"networkError", "httpError", "jsonError"}

FormattingCalled ==
    \E i \in DOMAIN calls : calls[i] \in {"generateMarkdown", "formatRepoData"}

-----------------------------------------------------------------------------
(* The properties *)

\* C1: when fetch rejects, the response is not ok, or decoding the body
\* fails, fetchStarredRepos returns null without throwing, and generateReport
\* then returns null without throwing and without calling generateMarkdown or
\* formatRepoData.
C1_FailureYieldsNull ==
    FetchFailed =>
        /\ pc \in {"fetched", "reported", "done"}
        /\ repos = Null
        /\ (pc # "fetched" => report = Null)
        /\ ~FormattingCalled

C1_Witness == outcome = "jsonError" /\ pc = "done" /\ report = Null

\* C2: for every malformed response (the body decodes but is no array of
\* well-formed repository objects) generateReport yields null and does not
\* throw.
C2_MalformedYieldsNull ==
    Malformed(body) =>
        /\ pc # "rejected"
        /\ (Settled => report = Null)

\* C7: every run of generateReport issues exactly one request, awaits its
\* outcome before any formatting step, and never issues a second one.
C7_OneRequest ==
    /\ Len(requests) <= 1
    /\ pc # "start" =>
        requests = <<(<<"https://api.github.com/users/">> \o Username
                      \o <<"/starred">>)>>
    /\ Len(Positions(calls, "fetch")) = Len(requests)
    /\ FormattingCalled => outcome = "ok"
    /\ Settled => outcome # "none"

C7_Witness == pc = "done" /\ Len(requests) = 1 /\ FormattingCalled

\* C10: main writes files only after generateReport returned a report that
\* is not null: README.md with the markdown first, then starred-repos.json
\* with the json, each at most once.
C10_FilesAfterReport ==
    /\ files # <<>> =>
        /\ report.t = "report"
        /\ pc \in {"wroteReadme", "done", "writeFailed"}
    /\ Len(files) <= 2
    /\ Len(files) >= 1 =>
        files[1] = [name |-> "README.md", content |-> report.markdown]
    /\ Len(files) = 2 =>
        files[2] = [name |-> "starred-repos.json", content |-> report.json]

C10_Witness == pc = "done" /\ Len(files) = 2

\* The field set of a normalized record, and of its owner.
C3_Fields ==
    {"name", "full_name", "description", "html_url", "stargazers_count",
     "forks_count", "language", "created_at", "updated_at", "owner"}
C3_OwnerFields == {"login", "html_url"}

\* out is the record formatRepoData derives from the record in.
C3_Derived(in, out) ==
    /\ out.t = "object"
    /\ Range(out.keys) = C3_Fields
    /\ DOMAIN out.val = C3_Fields
    /\ \A k \in C3_Fields \ {"owner"} : out.val[k] = in.val[k]
    /\ out.val["owner"].t = "object"
    /\ Range(out.val["owner"].keys) = C3_OwnerFields
    /\ DOMAIN out.val["owner"].val = C3_OwnerFields
    /\ \A k \in C3_OwnerFields :
        out.val["owner"].val[k] = in.val["owner"].val[k]

\* C3: for an array of well-formed records formatRepoData returns an array
\* of the same length whose i-th record is derived from the i-th input
\* record and has exactly the fixed field set, each field equal to the
\* input's; no other input field appears.  (The array read is the one the
\* call in generateReport returns: the last array allocated.)
C3_FormatRepoData ==
    Reported =>
        /\ Len(heap[Len(heap)]) = Len(body.items)
        /\ \A i \in DOMAIN body.items :
            C3_Derived(body.items[i], heap[Len(heap)][i])

C3_Witness == Reported /\ Len(heap[Len(heap)]) = 2

\* heads are the Top 10 headings for the input array in, idx[k] is the place
\* in the input of the record the k-th heading names, stars[k] its star count.
C4_Ranked(in, heads, idx, stars) ==
    /\ Len(heads) = Min({10, Len(in)})
    /\ \A k \in DOMAIN heads : HeadingNumber(heads[k]) = Digits(k)
    /\ \A k, l \in DOMAIN heads : k < l =>
        /\ idx[k] # idx[l]
        /\ stars[k] >= stars[l]
        /\ stars[k] = stars[l] => idx[k] < idx[l]
    /\ \A i \in DOMAIN in \ Range(idx) : \A k \in DOMAIN heads :
        StarCount(in[i]) <= stars[k]

\* Every line names a record of the input.
C4_Listed(in, names) ==
    \A k \in DOMAIN names : \E i \in DOMAIN in : NameOf(in[i]) = names[k]

\* The places in the input of the records called names[1], names[2], ...
Places(in, names) == [k \in DOMAIN names |-> IndexOf(in, names[k])]

StarsAt(in, idx) == [k \in DOMAIN idx |-> StarCount(in[idx[k]])]

C4_Placed(in, heads, idx) == C4_Ranked(in, heads, idx, StarsAt(in, idx))

HeadingNames(heads) == [k \in DOMAIN heads |-> HeadingName(heads[k])]

C4_Section(in, heads) ==
    /\ C4_Listed(in, HeadingNames(heads))
    /\ C4_Placed(in, heads, Places(in, HeadingNames(heads)))

\* C4: the Top 10 section holds exactly min(10, n) entries, numbered from 1,
\* in non-increasing order of stargazers_count; no omitted record has more
\* stars than a listed one; records with equal star counts appear in their
\* input order.
C4_TopTen == Reported => C4_Section(body.items, TopHeadings(report.markdown))

\* More than ten records, the last of which ties with a listed one.
C4_Witness ==
    /\ Reported
    /\ Len(body.items) > 10
    /\ Len(TopHeadings(report.markdown)) = 10
    /\ \E i \in DOMAIN body.items :
        /\ StarCount(body.items[i]) = StarCount(body.items[Len(body.items)])
        /\ i < Len(body.items)
        /\ StarCount(body.items[i]) > 0

\* C5: for every successfully fetched array of length n >= 0 a report is
\* returned, and report.count, the 'Total repositories' line, the number of
\* data rows of the table and the number of records of the JSON export are
\* all n.
C5_Counts ==
    /\ WellFormed(body) /\ Settled => report.t = "report"
    /\ Reported =>
        /\ report.count = Num(Len(body.items))
        /\ LinesWith(report.markdown, "> Total repositories: ")
             = <<(<<"> Total repositories: ">> \o Digits(Len(body.items)))>>
        /\ Len(TableRows(report.markdown)) = Len(body.items)
        /\ report.json[1] \in {"[", "[]"}
        /\ Len(JsonRecordLines(report.json)) = Len(body.items)

C5_Witness == Reported /\ Len(body.items) > 10

\* The description cell the table shows for the description d.
C8_Cell(d) ==
    IF d.t = "string" /\ Len(d.s) > 80
    THEN SubSeq(d.s, 1, 80) \o <<"...">>
    ELSE IF d.t = "string" /\ Len(d.s) > 0 THEN d.s
    ELSE <<"No description">>

\* What a Top 10 entry shows for the description d.
C8_Full(d) ==
    IF d.t = "string" /\ Len(d.s) > 0 THEN d.s ELSE <<"No description">>

C8_Rows(in, rows) ==
    \A k \in DOMAIN rows :
        RowDescription(rows[k])
          = C8_Cell(Get(in[IndexOf(in, RowName(rows[k]))], "description"))

C8_Top(in, heads, descs) ==
    /\ Len(descs) = Len(heads)
    /\ \A k \in DOMAIN heads :
        Tail(descs[k])
          = C8_Full(Get(in[IndexOf(in, HeadingName(heads[k]))], "description"))

\* C8: in the table a description longer than 80 characters is shown as its
\* first 80 characters and '...', one of at most 80 unchanged, and a null or
\* empty one as 'No description'; in the Top 10 section descriptions are
\* shown in full.
C8_Descriptions ==
    Reported =>
        /\ C8_Rows(body.items, TableRows(report.markdown))
        /\ C8_Top(body.items, TopHeadings(report.markdown),
                  TopDescriptions(report.markdown))

DescriptionLengths(items) ==
    {IF Get(items[i], "description").t = "string"
     THEN Len(Get(items[i], "description").s) ELSE -1 : i \in DOMAIN items}

\* Descriptions of exactly 80 and of 81 characters, a null and an empty one.
C8_Witness ==
    /\ Reported
    /\ {-1, 0, 80, 81} \subseteq DescriptionLengths(body.items)

RowNames(rows) == [k \in DOMAIN rows |-> RowName(rows[k])]

\* The rows of the table, of star counts stars, are in ranked order and
\* start with the Top 10.
C9_RowsRanked(rows, stars, heads) ==
    /\ \A k, l \in DOMAIN rows : k < l => stars[k] >= stars[l]
    /\ Len(heads) <= Len(rows)
    /\ \A k \in DOMAIN heads : RowName(rows[k]) = HeadingName(heads[k])

C9_Table(in, rows, heads) ==
    /\ C4_Listed(in, RowNames(rows))
    /\ C9_RowsRanked(rows, StarsAt(in, Places(in, RowNames(rows))), heads)

\* C9: generateMarkdown sorts only its own copy: after generateReport the
\* fetched array holds the same elements in the same order, the JSON export
\* lists the records in fetched order, and the rows of the table are in
\* ranked order, the first min(10, n) being the Top 10 entries in order.
C9_InputUnchanged ==
    Reported =>
        /\ heap[repos.ref] = body.items
        /\ JsonNames(report.json) = Names(body.items)
        /\ C9_Table(body.items, TableRows(report.markdown),
                    TopHeadings(report.markdown))

\* An array of more than ten records that is not in ranked order.
C9_Witness ==
    /\ Reported
    /\ Len(body.items) > 10
    /\ \E i \in DOMAIN body.items :
        i > 1 /\ StarCount(body.items[i]) > StarCount(body.items[i - 1])

=============================================================================
